---- MODULE Spec2Model ----
(***************************************************************************)
(* Model of the awooter arc partitioner                                    *)
(* (common/route/awooter/rust/src/partition.rs): the balance search        *)
(* find_partition_point, the partition pass with its parallel per-arc      *)
(* workers, the pip index and the pip chooser find_best_pip.               *)
(*                                                                         *)
(* Delays are held in sixteenths (every value is exactly representable in  *)
(* f32, so the float arithmetic of the score is exact and the cast to u64  *)
(* is a floor).                                                            *)
(***************************************************************************)
EXTENDS Integers, Sequences, FiniteSets, TLC

VARIABLES
    inp,            \* arguments of find_partition_point: ctx, arcs, pips, bounds
    pc,             \* position of find_partition_point
    x, y,           \* current cut point
    x_diff, y_diff, \* current step
    ne, se, sw, nw, \* quadrant lists returned by the last partition pass
    pips_n, pips_e, pips_s, pips_w,   \* pip index of the running pass
    task,           \* per-arc closure state of the parallel flat_map
    part_horiz, part_vert, part_diag, explored_pips,  \* diagnostic counters
    passes,         \* number of partition passes started so far
    prev            \* sizes of completed passes, by cut point

vars == <<inp, pc, x, y, x_diff, y_diff, ne, se, sw, nw,
          pips_n, pips_e, pips_s, pips_w, task,
          part_horiz, part_vert, part_diag, explored_pips, passes, prev>>

---------------------------------------------------------------------------
(* Bounds of the model *)

\* largest x_finish / y_finish of the bounds sweep
MaxSpan == 16
\* largest delay(source wire, pip source wire), in sixteenths
MaxSrcDelay == 1
\* largest delay(pip destination wire, sink wire), in sixteenths
MaxDstDelay == 1

---------------------------------------------------------------------------
(* Integer helpers *)

Abs(a) == IF a < 0 THEN -a ELSE a

\* Rust's `/` on integers: quotient truncated toward zero
TruncDiv(a, b) ==
    IF b = 0 THEN 0
    ELSE LET q == Abs(a) \div Abs(b)
         IN IF (a < 0) = (b < 0) THEN q ELSE -q

\* the i32 range
I32Max == 2147483647
I32Min == -I32Max - 1

\* a + b, a - b and a * b leave the i32 range
AddOverflows(a, b) ==
    \/ a > 0 /\ b > 0 /\ a > I32Max - b
    \/ a < 0 /\ b < 0 /\ a < I32Min - b

SubOverflows(a, b) ==
    IF b = I32Min THEN a >= 0 ELSE AddOverflows(a, -b)

MulOverflows(a, b) ==
    IF a = 0 \/ b = 0 THEN FALSE
    ELSE IF a = I32Min THEN b # 1
    ELSE IF b = I32Min THEN a # 1
    ELSE LET m == I32Max \div Abs(b)
         IN \/ Abs(a) - 1 > m
            \/ Abs(a) - 1 = m /\ ~((a < 0) # (b < 0) /\ I32Max % Abs(b) = Abs(b) - 1)

\* i32 arithmetic of a build without overflow checks: the result modulo 2^32
WrapAdd(a, b) ==
    IF a > 0 /\ b > 0 /\ a > I32Max - b THEN (a - I32Max - 1) + (b - I32Max - 1)
    ELSE IF a < 0 /\ b < 0 /\ a < I32Min - b THEN (a + I32Max + 1) + (b + I32Max + 1)
    ELSE a + b

WrapNeg(a) == IF a = I32Min THEN I32Min ELSE -a

WrapSub(a, b) ==
    IF b = I32Min
    THEN (IF a >= 0 THEN a + I32Min ELSE (a + I32Max) + 1)
    ELSE WrapAdd(a, -b)

\* |a| * |b| modulo 2^32 as a signed 32-bit value, by 16-bit halves so that
\* no partial product leaves the range of the checker's integers
WrapMulAbs(a, b) ==
    LET ah == a \div 65536
        al == a % 65536
        bh == b \div 65536
        bl == b % 65536
        t == (al \div 256) * bl
        u == (al % 256) * bl
        v == (t % 256) * 256 + u
        hi == ((t \div 256) + (v \div 65536)
               + ((ah * bl) % 65536) + ((al * bh) % 65536)) % 65536
    IN IF hi >= 32768 THEN (hi - 65536) * 65536 + (v % 65536)
                      ELSE hi * 65536 + (v % 65536)

WrapMul(a, b) ==
    IF ~MulOverflows(a, b) THEN a * b
    ELSE IF b = I32Min THEN (IF a % 2 = 0 THEN 0 ELSE I32Min)
    ELSE IF a = I32Min THEN (IF b % 2 = 0 THEN 0 ELSE I32Min)
    ELSE IF (a < 0) = (b < 0) THEN WrapMulAbs(Abs(a), Abs(b))
    ELSE WrapNeg(WrapMulAbs(Abs(a), Abs(b)))

\* i32::clamp
Clamp(v, lo, hi) == IF v < lo THEN lo ELSE IF v > hi THEN hi ELSE v

RECURSIVE CeilLog2(_)
CeilLog2(n) == IF n <= 1 THEN 0 ELSE 1 + CeilLog2((n + 1) \div 2)

---------------------------------------------------------------------------
(* Geometry primitives *)

Segments == {"Northeast", "Southeast", "Southwest", "Northwest"}

Coord(cx, cy) == [x |-> cx, y |-> cy]

is_north_of(a, b) == a.x < b.x
is_east_of(a, b) == a.y < b.y
is_south_of(a, b) == a.x > b.x
is_west_of(a, b) == a.y > b.y

segment_from(a, b) ==
    IF is_north_of(a, b)
    THEN (IF is_east_of(a, b) THEN "Northeast" ELSE "Northwest")
    ELSE (IF is_east_of(a, b) THEN "Southeast" ELSE "Southwest")

---------------------------------------------------------------------------
(* Line helpers *)

\* the three products, the sum and the difference of the general case, as a
\* build without overflow checks computes them
LineTerms(l0, l1, x_location) ==
    LET xd == WrapSub(l0.x, l1.x)
        yd == WrapSub(l0.y, l1.y)
        p1 == WrapMul(yd, x_location)
        p2 == WrapMul(l0.y, xd)
        p3 == WrapMul(l0.x, yd)
        s1 == WrapAdd(p1, p2)
    IN [xd |-> xd, yd |-> yd, p1 |-> p1, p2 |-> p2, p3 |-> p3, s1 |-> s1,
        num |-> WrapSub(s1, p3)]

\* every coordinate lies in 0..16383: the differences stay within 2^14, the
\* products within 2^28 and their sum within 2^30, so that nothing can leave
\* the i32 range and the arithmetic is that of the integers
SmallLine(l0, l1, x_location) ==
    \A v \in {l0.x, l0.y, l1.x, l1.y, x_location} : 0 <= v /\ v < 16384

\* some sum, difference or product of the evaluation leaves the i32 range:
\* a build with overflow checks panics there, a build without wraps
split_line_overflows(l0, l1, x_location) ==
    IF SmallLine(l0, l1, x_location) THEN FALSE
    ELSE IF l0.x = l1.x
    THEN AddOverflows(l0.y, l1.y)
    ELSE LET t == LineTerms(l0, l1, x_location)
         IN \/ SubOverflows(l0.x, l1.x) \/ SubOverflows(l0.y, l1.y)
            \/ MulOverflows(t.yd, x_location) \/ MulOverflows(l0.y, t.xd)
            \/ AddOverflows(t.p1, t.p2)
            \/ MulOverflows(l0.x, t.yd) \/ SubOverflows(t.s1, t.p3)

\* i32::MIN / -1 panics in every build
split_line_divides_min(l0, l1, x_location) ==
    /\ ~SmallLine(l0, l1, x_location)
    /\ l0.x # l1.x
    /\ LineTerms(l0, l1, x_location).num = I32Min
    /\ LineTerms(l0, l1, x_location).xd = -1

\* the value returned when the evaluation does not panic; all of the
\* arithmetic is in i32
split_line_over_x(l0, l1, x_location) ==
    IF SmallLine(l0, l1, x_location)
    THEN (IF l0.x = l1.x
          THEN TruncDiv(l0.y + l1.y, 2)
          ELSE TruncDiv((l0.y - l1.y) * x_location + l0.y * (l0.x - l1.x)
                            - l0.x * (l0.y - l1.y),
                        l0.x - l1.x))
    ELSE IF l0.x = l1.x
    THEN TruncDiv(WrapAdd(l0.y, l1.y), 2)
    ELSE LET t == LineTerms(l0, l1, x_location)
         IN IF t.num = I32Min /\ t.xd = -1 THEN I32Min ELSE TruncDiv(t.num, t.xd)

split_line_y_overflows(l0, l1, y_location) ==
    split_line_overflows(Coord(l0.y, l0.x), Coord(l1.y, l1.x), y_location)

split_line_y_divides_min(l0, l1, y_location) ==
    split_line_divides_min(Coord(l0.y, l0.x), Coord(l1.y, l1.x), y_location)

split_line_over_y(l0, l1, y_location) ==
    split_line_over_x(Coord(l0.y, l0.x), Coord(l1.y, l1.x), y_location)

---------------------------------------------------------------------------
(* Device context and Arc capability *)

\* pips are identified by their position in the pip list
pip_location(ctx, pip) == ctx.pips[pip].loc
pip_direction(ctx, pip) == ctx.pips[pip].dir
pip_src_wire(ctx, pip) == <<"pip_src", pip>>
pip_dst_wire(ctx, pip) == <<"pip_dst", pip>>

\* delay estimate in sixteenths; the device's estimator is an input
estimate_delay(ctx, w1, w2) ==
    IF w2[1] = "pip_src" THEN ctx.delay[w2[2]][1]
    ELSE IF w1[1] = "pip_dst" THEN ctx.delay[w1[2]][2]
    ELSE 0

\* Arc::split: head ends at the pip, tail starts at the pip
ArcSplit(ctx, arc, pip) ==
    << [arc EXCEPT !.sink_wire = pip_src_wire(ctx, pip),
                   !.sink_loc = pip_location(ctx, pip)],
       [arc EXCEPT !.source_wire = pip_dst_wire(ctx, pip),
                   !.source_loc = pip_location(ctx, pip)] >>

MkArc(i, s, k) ==
    [source_wire |-> <<"arc_src", i>>, source_loc |-> s,
     sink_wire |-> <<"arc_snk", i>>, sink_loc |-> k]

MkPip(l, d) == [loc |-> l, dir |-> d]

---------------------------------------------------------------------------
(* Pip index *)

EmptyMap == [c \in {} |-> <<>>]

\* HashMap entry(..).and_modify(push).or_insert_with(vec![..])
MapPush(m, key, v) ==
    IF key \in DOMAIN m
    THEN [m EXCEPT ![key] = Append(@, v)]
    ELSE [c \in (DOMAIN m) \cup {key} |-> IF c = key THEN <<v>> ELSE m[c]]

\* (pip, AtomicUsize::new(0)); seen is the value the latest load of the
\* counter returned (history, not program state)
NewEntry(pip) == [pip |-> pip, uses |-> 0, seen |-> 0]

RangeContains(lo, hi, v) == lo <= v /\ v <= hi

\* a filter that keeps only the pips of the cell where the cuts meet
OnBothCutsInBounds(loc, px, py, a) ==
    /\ (loc.x = px /\ loc.y = py)
    /\ RangeContains(a.x_start, a.x_finish, loc.x)
    /\ RangeContains(a.y_start, a.y_finish, loc.y)

\* the pip filter of the index build
OnCutInBounds(loc, px, py, a) ==
    /\ (loc.x = px \/ loc.y = py)
    /\ RangeContains(a.x_start, a.x_finish, loc.x)
    /\ RangeContains(a.y_start, a.y_finish, loc.y)

\* body of `for &pip in pips`
IndexStep(a, pip, px, py, acc) ==
    LET loc == pip_location(a.ctx, pip)
        dir == pip_direction(a.ctx, pip)
        key == <<loc.x, loc.y>>
    IN IF ~OnCutInBounds(loc, px, py, a) THEN acc
       ELSE IF dir.x = 0 /\ dir.y = 0 THEN acc
       ELSE [n |-> IF dir.x < 0 THEN MapPush(acc.n, key, NewEntry(pip)) ELSE acc.n,
             s |-> IF dir.x > 0 THEN MapPush(acc.s, key, NewEntry(pip)) ELSE acc.s,
             e |-> IF dir.y < 0 THEN MapPush(acc.e, key, NewEntry(pip)) ELSE acc.e,
             w |-> IF dir.y > 0 THEN MapPush(acc.w, key, NewEntry(pip)) ELSE acc.w]

RECURSIVE BuildIndexFrom(_, _, _, _, _)
BuildIndexFrom(a, i, px, py, acc) ==
    IF i > Len(a.pips) THEN acc
    ELSE BuildIndexFrom(a, i + 1, px, py, IndexStep(a, a.pips[i], px, py, acc))

BuildIndex(a, px, py) ==
    BuildIndexFrom(a, 1, px, py,
                   [n |-> EmptyMap, s |-> EmptyMap, e |-> EmptyMap, w |-> EmptyMap])

IndexOf(dir) ==
    CASE dir = "n" -> pips_n
      [] dir = "e" -> pips_e
      [] dir = "s" -> pips_s
      [] dir = "w" -> pips_w

\* pips_X.get(&middle) is Some
HasBucket(b) == b.cell \in DOMAIN IndexOf(b.dir)
Bucket(b) == IndexOf(b.dir)[b.cell]

---------------------------------------------------------------------------
(* Classification of an arc in a pass *)

ArcKind(arc, px, py) ==
    LET p == Coord(px, py)
        sn == is_north_of(arc.source_loc, p)
        sE == is_east_of(arc.source_loc, p)
        kn == is_north_of(arc.sink_loc, p)
        kE == is_east_of(arc.sink_loc, p)
    IN IF sn = kn /\ sE = kE THEN "same"
       ELSE IF sn # kn /\ sE = kE THEN "ns"
       ELSE IF sn = kn /\ sE # kE THEN "ew"
       ELSE "diag"

\* i32::clamp(min, max) asserts min <= max: on a grid less than 2 wide or
\* high the clamp of a cut cell panics instead of returning a cell
ClampPanics(ctx) == ctx.grid_dim_x - 1 < 1 \/ ctx.grid_dim_y - 1 < 1

\* a clamp whose lower limit is 0
ClampCellFromZero(ctx, cx, cy) ==
    << Clamp(cx, 0, ctx.grid_dim_x - 1), Clamp(cy, 0, ctx.grid_dim_y - 1) >>

ClampCell(ctx, cx, cy) ==
    << Clamp(cx, 1, ctx.grid_dim_x - 1), Clamp(cy, 1, ctx.grid_dim_y - 1) >>

\* the N/S bucket against the direction of travel
NsBucketAgainst(ctx, arc, px, py) ==
    [dir |-> IF is_north_of(arc.source_loc, Coord(px, py)) THEN "n" ELSE "s",
     cell |-> ClampCell(ctx, px, TruncDiv(arc.source_loc.y + arc.sink_loc.y, 2))]

\* bucket of the N/S cut of a "ns" arc
NsBucket(ctx, arc, px, py) ==
    [dir |-> IF is_north_of(arc.source_loc, Coord(px, py)) THEN "s" ELSE "n",
     cell |-> ClampCell(ctx, px, TruncDiv(arc.source_loc.y + arc.sink_loc.y, 2))]

\* bucket of the E/W cut of an "ew" arc
EwBucket(ctx, arc, px, py) ==
    [dir |-> IF is_east_of(arc.source_loc, Coord(px, py)) THEN "w" ELSE "e",
     cell |-> ClampCell(ctx, TruncDiv(arc.source_loc.x + arc.sink_loc.x, 2), py)]

\* first bucket of a diagonal arc (horiz_pip)
DiagHorizBucket(ctx, arc, px, py) ==
    [dir |-> IF is_east_of(arc.source_loc, Coord(px, py)) THEN "w" ELSE "e",
     cell |-> ClampCell(ctx, px, split_line_over_x(arc.source_loc, arc.sink_loc, px))]

\* second bucket of a diagonal arc (vert_pip)
DiagVertBucket(ctx, arc, px, py) ==
    [dir |-> IF is_north_of(arc.source_loc, Coord(px, py)) THEN "s" ELSE "n",
     cell |-> ClampCell(ctx, split_line_over_y(arc.source_loc, arc.sink_loc, py), py)]

\* the evaluation of split_line_over_x for a diagonal arc panics: on an
\* overflow when the build checks for it, on i32::MIN / -1 in every build
HorizLinePanics(checked, arc, px, py) ==
    \/ checked /\ split_line_overflows(arc.source_loc, arc.sink_loc, px)
    \/ split_line_divides_min(arc.source_loc, arc.sink_loc, px)

\* likewise for split_line_over_y
VertLinePanics(checked, arc, px, py) ==
    \/ checked /\ split_line_y_overflows(arc.source_loc, arc.sink_loc, py)
    \/ split_line_y_divides_min(arc.source_loc, arc.sink_loc, py)

FirstBucket(ctx, arc, px, py) ==
    CASE ArcKind(arc, px, py) = "ns" -> NsBucket(ctx, arc, px, py)
      [] ArcKind(arc, px, py) = "ew" -> EwBucket(ctx, arc, px, py)
      [] OTHER -> DiagHorizBucket(ctx, arc, px, py)

\* (seg1, seg2) of the N/S branch
NsSegments(sn, sE) ==
    CASE sn /\ sE -> <<"Northeast", "Southeast">>
      [] sn /\ ~sE -> <<"Northwest", "Southwest">>
      [] ~sn /\ sE -> <<"Southeast", "Northeast">>
      [] OTHER -> <<"Southwest", "Northwest">>

\* a table that sends the tail of an E/W crossing across the N/S cut
EwSegmentsAcrossNs(sn, sE) ==
    CASE sn /\ sE -> <<"Northeast", "Southeast">>
      [] sn /\ ~sE -> <<"Northwest", "Southwest">>
      [] ~sn /\ sE -> <<"Southeast", "Northeast">>
      [] OTHER -> <<"Southwest", "Northwest">>

\* (seg1, seg2) of the E/W branch
EwSegments(sn, sE) ==
    CASE sn /\ sE -> <<"Northeast", "Northwest">>
      [] sn /\ ~sE -> <<"Northwest", "Northeast">>
      [] ~sn /\ sE -> <<"Southeast", "Southwest">>
      [] OTHER -> <<"Southwest", "Southeast">>

\* a table whose rows for a source in the northeast are exchanged
DiagSegmentsRowsExchanged(sn, sE, hE) ==
    CASE sn /\ sE /\ ~hE -> <<"Northeast", "Southeast", "Southwest">>
      [] sn /\ sE /\ hE -> <<"Northeast", "Northwest", "Southwest">>
      [] sn /\ ~sE /\ hE -> <<"Northwest", "Northeast", "Southeast">>
      [] sn /\ ~sE /\ ~hE -> <<"Northwest", "Southwest", "Southeast">>
      [] ~sn /\ sE /\ hE -> <<"Southeast", "Northeast", "Northwest">>
      [] ~sn /\ sE /\ ~hE -> <<"Southeast", "Southwest", "Northwest">>
      [] ~sn /\ ~sE /\ hE -> <<"Southwest", "Southeast", "Northeast">>
      [] OTHER -> <<"Southwest", "Northwest", "Northeast">>

\* (seg1, seg2, seg3) of the diagonal branch
DiagSegments(sn, sE, hE) ==
    CASE sn /\ sE /\ hE -> <<"Northeast", "Southeast", "Southwest">>
      [] sn /\ sE /\ ~hE -> <<"Northeast", "Northwest", "Southwest">>
      [] sn /\ ~sE /\ hE -> <<"Northwest", "Northeast", "Southeast">>
      [] sn /\ ~sE /\ ~hE -> <<"Northwest", "Southwest", "Southeast">>
      [] ~sn /\ sE /\ hE -> <<"Southeast", "Northeast", "Northwest">>
      [] ~sn /\ sE /\ ~hE -> <<"Southeast", "Southwest", "Northwest">>
      [] ~sn /\ ~sE /\ hE -> <<"Southwest", "Southeast", "Northeast">>
      [] OTHER -> <<"Southwest", "Northwest", "Northeast">>

\* an emission that tags the tail by the cell the pip leads to
EmitSingleTagsByPip(ctx, arc, px, py, segs, pip) ==
    LET sp == ArcSplit(ctx, arc, pip)
        to == Coord(pip_location(ctx, pip).x + pip_direction(ctx, pip).x,
                    pip_location(ctx, pip).y + pip_direction(ctx, pip).y)
    IN << <<segs[1], sp[1]>>, <<segment_from(to, Coord(px, py)), sp[2]>> >>

\* the vec! a closure returns for a crossing arc, given the pips it chose
EmitSingle(ctx, arc, px, py, segs, pip) ==
    LET sp == ArcSplit(ctx, arc, pip)
    IN << <<segs[1], sp[1]>>, <<segs[2], sp[2]>> >>

\* a second split applied to the whole arc instead of the tail of the first
SplitTwiceWhole(ctx, arc, first, second) ==
    LET ab == ArcSplit(ctx, arc, first)
        bc == ArcSplit(ctx, arc, second)
    IN << ab[1], bc[1], bc[2] >>

\* (a, b) = arc.split(first); (b, c) = b.split(second)
SplitTwice(ctx, arc, first, second) ==
    LET ab == ArcSplit(ctx, arc, first)
        bc == ArcSplit(ctx, ab[2], second)
    IN << ab[1], bc[1], bc[2] >>

EmitDiagDropsMiddle(ctx, arc, px, py, horiz_pip, vert_pip) ==
    LET p == Coord(px, py)
        sn == is_north_of(arc.source_loc, p)
        sE == is_east_of(arc.source_loc, p)
        hE == is_east_of(pip_location(ctx, horiz_pip), p)
        first == IF hE = sE THEN horiz_pip ELSE vert_pip
        second == IF hE = sE THEN vert_pip ELSE horiz_pip
        ab == ArcSplit(ctx, arc, first)
        bc == ArcSplit(ctx, ab[2], second)
        segs == DiagSegments(sn, sE, hE)
    IN << <<segs[1], ab[1]>>, <<segs[3], bc[2]>> >>

EmitDiag(ctx, arc, px, py, horiz_pip, vert_pip) ==
    LET p == Coord(px, py)
        sn == is_north_of(arc.source_loc, p)
        sE == is_east_of(arc.source_loc, p)
        hE == is_east_of(pip_location(ctx, horiz_pip), p)
        first == IF hE = sE THEN horiz_pip ELSE vert_pip
        second == IF hE = sE THEN vert_pip ELSE horiz_pip
        abc == SplitTwice(ctx, arc, first, second)
        segs == DiagSegments(sn, sE, hE)
    IN << <<segs[1], abc[1]>>, <<segs[2], abc[2]>>, <<segs[3], abc[3]>> >>

---------------------------------------------------------------------------
(* Pip chooser *)

\* key of min_by_key: (1000.0 * (src_to_pip + (uses + 1) * pip_to_snk)) as u64
Score(ctx, pip, uses, source_wire, sink_wire) ==
    LET src_to_pip == estimate_delay(ctx, source_wire, pip_src_wire(ctx, pip))
        pip_to_snk == estimate_delay(ctx, pip_dst_wire(ctx, pip), sink_wire)
    IN (1000 * (src_to_pip + (uses + 1) * pip_to_snk)) \div 16

\* a chooser that keeps the later element on equal keys
KeepsBestLastWins(best, best_key, key) == best # 0 /\ best_key < key

\* min_by_key keeps the earlier element on equal keys
KeepsBest(best, best_key, key) == best # 0 /\ best_key <= key

\* a load that returns the counter as it was one increment ago
stale_load(cur) == IF cur > 0 THEN cur - 1 ELSE 0

\* AtomicUsize::load: the current value of the counter
atomic_load(cur) == cur

\* a plain store of the increment in place of the read-modify-write
store_instead(cur, v) == v

\* AtomicUsize::fetch_add: the new value of the counter
fetch_add(cur, v) == cur + v

---------------------------------------------------------------------------
(* State of one closure of the parallel flat_map *)

NoBucket == [dir |-> "-", cell |-> <<0, 0>>]

\* pc: start -> (scan -> fetch)* -> done; idx is the next bucket entry
\* min_by_key loads; best/best_key its running minimum; picks the pips the
\* chooser has returned to this closure; out the vec! it returns;
\* dirty records that another chooser call incremented a counter of the
\* same bucket after this call's first load (history)
TaskInit ==
    [pc |-> "start", bkt |-> NoBucket, idx |-> 0, best |-> 0, best_key |-> 0,
     picks |-> <<>>, out |-> <<>>, dirty |-> FALSE]

TaskScan(tk, b) ==
    [tk EXCEPT !.pc = "scan", !.bkt = b, !.idx = 1, !.best = 0, !.best_key = 0,
               !.dirty = FALSE]

TaskDone(tk, emitted) ==
    [tk EXCEPT !.pc = "done", !.bkt = NoBucket, !.idx = 0, !.best = 0,
               !.best_key = 0, !.out = emitted]

InPass == pc \in {"pass_loop", "pass_final"}

Arcs == inp.arcs
Tasks == DOMAIN task

Sizes == <<Len(ne), Len(se), Len(sw), Len(nw)>>

---------------------------------------------------------------------------
(* The partition pass *)

\* partition() up to the parallel region: fresh index, fresh counters
EnterPass(next_pc) ==
    LET ix == BuildIndex(inp, x, y)
    IN /\ pc' = next_pc
       /\ pips_n' = ix.n /\ pips_e' = ix.e /\ pips_s' = ix.s /\ pips_w' = ix.w
       /\ task' = [t \in 1..Len(Arcs) |-> TaskInit]
       /\ part_horiz' = 0 /\ part_vert' = 0 /\ part_diag' = 0
       /\ explored_pips' = 0
       /\ passes' = passes + 1
       /\ UNCHANGED <<inp, x, y, x_diff, y_diff, ne, se, sw, nw, prev>>

\* closure entry for an arc that stays in one quadrant
StartSame(t) ==
    /\ InPass /\ task[t].pc = "start"
    /\ ArcKind(Arcs[t], x, y) = "same"
    /\ task' = [task EXCEPT ![t] =
           TaskDone(@, << <<segment_from(Arcs[t].source_loc, Coord(x, y)), Arcs[t]>> >>)]
    /\ UNCHANGED <<inp, pc, x, y, x_diff, y_diff, ne, se, sw, nw,
                   pips_n, pips_e, pips_s, pips_w,
                   part_horiz, part_vert, part_diag, explored_pips, passes, prev>>

\* closure entry for a crossing arc whose first bucket exists
StartCross(t) ==
    /\ InPass /\ task[t].pc = "start"
    /\ ArcKind(Arcs[t], x, y) # "same"
    /\ ~(ArcKind(Arcs[t], x, y) = "diag" /\ HorizLinePanics(inp.overflow_checks, Arcs[t], x, y))
    /\ ~ClampPanics(inp.ctx)
    /\ HasBucket(FirstBucket(inp.ctx, Arcs[t], x, y))
    /\ task' = [task EXCEPT ![t] = TaskScan(@, FirstBucket(inp.ctx, Arcs[t], x, y))]
    /\ UNCHANGED <<inp, pc, x, y, x_diff, y_diff, ne, se, sw, nw,
                   pips_n, pips_e, pips_s, pips_w,
                   part_horiz, part_vert, part_diag, explored_pips, passes, prev>>

\* closure entry for a crossing arc whose cut cell cannot be computed or
\* clamped, or whose first bucket is missing: the arithmetic of the line
\* helper, the assertion of clamp(), or unwrap() on None, panics and the
\* panic leaves find_partition_point
StartAbort(t) ==
    /\ InPass /\ task[t].pc = "start"
    /\ ArcKind(Arcs[t], x, y) # "same"
    /\ \/ ArcKind(Arcs[t], x, y) = "diag" /\ HorizLinePanics(inp.overflow_checks, Arcs[t], x, y)
       \/ ClampPanics(inp.ctx)
       \/ ~HasBucket(FirstBucket(inp.ctx, Arcs[t], x, y))
    /\ pc' = "aborted"
    /\ UNCHANGED <<inp, x, y, x_diff, y_diff, ne, se, sw, nw,
                   pips_n, pips_e, pips_s, pips_w, task,
                   part_horiz, part_vert, part_diag, explored_pips, passes, prev>>

SetEntry(m, d, b, i, e) == IF b.dir = d THEN [m EXCEPT ![b.cell][i] = e] ELSE m

\* one evaluation of the min_by_key key: load the counter, score the pip
Load(t) ==
    /\ InPass /\ task[t].pc = "scan"
    /\ LET tk == task[t]
           b == tk.bkt
           i == tk.idx
           e == Bucket(b)[i]
           uses == atomic_load(e.uses)
           key == Score(inp.ctx, e.pip, uses, Arcs[t].source_wire, Arcs[t].sink_wire)
           keep == KeepsBest(tk.best, tk.best_key, key)
           e2 == [e EXCEPT !.seen = uses]
       IN /\ task' = [task EXCEPT ![t] =
                 [tk EXCEPT !.best = IF keep THEN tk.best ELSE i,
                            !.best_key = IF keep THEN tk.best_key ELSE key,
                            !.idx = i + 1,
                            !.pc = IF i = Len(Bucket(b)) THEN "fetch" ELSE "scan"]]
          /\ pips_n' = SetEntry(pips_n, "n", b, i, e2)
          /\ pips_e' = SetEntry(pips_e, "e", b, i, e2)
          /\ pips_s' = SetEntry(pips_s, "s", b, i, e2)
          /\ pips_w' = SetEntry(pips_w, "w", b, i, e2)
    /\ UNCHANGED <<inp, pc, x, y, x_diff, y_diff, ne, se, sw, nw,
                   part_horiz, part_vert, part_diag, explored_pips, passes, prev>>

\* the other closures that are inside a chooser call on bucket b and have
\* loaded at least one counter
Scanning(t, b) ==
    {u \in Tasks \ {t} : task[u].pc \in {"scan", "fetch"} /\ task[u].bkt = b
                          /\ task[u].idx > 1}

\* the pick the chooser returns to closure t
PickOf(t) ==
    [dir |-> task[t].bkt.dir, cell |-> task[t].bkt.cell, idx |-> task[t].best,
     pip |-> Bucket(task[t].bkt)[task[t].best].pip]

\* fetch_add on the winner, common to the three FetchAdd actions
Bump(t) ==
    LET b == task[t].bkt
        i == task[t].best
        e2 == [Bucket(b)[i] EXCEPT !.uses = fetch_add(@, 1)]
    IN /\ pips_n' = SetEntry(pips_n, "n", b, i, e2)
       /\ pips_e' = SetEntry(pips_e, "e", b, i, e2)
       /\ pips_s' = SetEntry(pips_s, "s", b, i, e2)
       /\ pips_w' = SetEntry(pips_w, "w", b, i, e2)
       /\ explored_pips' = explored_pips + Len(Bucket(b))

MarkDirty(t, tk2) ==
    [u \in Tasks |-> IF u = t THEN tk2
                     ELSE IF u \in Scanning(t, task[t].bkt)
                          THEN [task[u] EXCEPT !.dirty = TRUE]
                          ELSE task[u]]

\* end of find_best_pip for an arc crossing one cut: split, return two sub-arcs
FetchAddSingle(t) ==
    /\ InPass /\ task[t].pc = "fetch"
    /\ ArcKind(Arcs[t], x, y) \in {"ns", "ew"}
    /\ Bump(t)
    /\ LET arc == Arcs[t]
           p == Coord(x, y)
           sn == is_north_of(arc.source_loc, p)
           sE == is_east_of(arc.source_loc, p)
           isNs == ArcKind(arc, x, y) = "ns"
           segs == IF isNs THEN NsSegments(sn, sE) ELSE EwSegments(sn, sE)
           pk == PickOf(t)
       IN /\ task' = MarkDirty(t, TaskDone([task[t] EXCEPT !.picks = Append(@, pk)],
                                           EmitSingle(inp.ctx, arc, x, y, segs, pk.pip)))
          /\ part_horiz' = IF isNs THEN part_horiz + 1 ELSE part_horiz
          /\ part_vert' = IF isNs THEN part_vert ELSE part_vert + 1
    /\ UNCHANGED <<inp, pc, x, y, x_diff, y_diff, ne, se, sw, nw,
                   part_diag, passes, prev>>

\* end of the first find_best_pip of a diagonal arc; the second bucket exists
FetchAddHoriz(t) ==
    /\ InPass /\ task[t].pc = "fetch"
    /\ ArcKind(Arcs[t], x, y) = "diag" /\ Len(task[t].picks) = 0
    /\ ~VertLinePanics(inp.overflow_checks, Arcs[t], x, y)
    /\ HasBucket(DiagVertBucket(inp.ctx, Arcs[t], x, y))
    /\ Bump(t)
    /\ task' = MarkDirty(t, TaskScan([task[t] EXCEPT !.picks = Append(@, PickOf(t))],
                                     DiagVertBucket(inp.ctx, Arcs[t], x, y)))
    /\ UNCHANGED <<inp, pc, x, y, x_diff, y_diff, ne, se, sw, nw,
                   part_horiz, part_vert, part_diag, passes, prev>>

\* end of the first find_best_pip of a diagonal arc; split_line_over_y
\* panics, or the second bucket is missing and unwrap() panics
FetchAddHorizAbort(t) ==
    /\ InPass /\ task[t].pc = "fetch"
    /\ ArcKind(Arcs[t], x, y) = "diag" /\ Len(task[t].picks) = 0
    /\ \/ VertLinePanics(inp.overflow_checks, Arcs[t], x, y)
       \/ ~HasBucket(DiagVertBucket(inp.ctx, Arcs[t], x, y))
    /\ Bump(t)
    /\ task' = MarkDirty(t, [task[t] EXCEPT !.picks = Append(@, PickOf(t))])
    /\ pc' = "aborted"
    /\ UNCHANGED <<inp, x, y, x_diff, y_diff, ne, se, sw, nw,
                   part_horiz, part_vert, part_diag, passes, prev>>

\* end of the second find_best_pip of a diagonal arc: two splits, three sub-arcs
FetchAddVert(t) ==
    /\ InPass /\ task[t].pc = "fetch"
    /\ ArcKind(Arcs[t], x, y) = "diag" /\ Len(task[t].picks) = 1
    /\ Bump(t)
    /\ task' = MarkDirty(t, TaskDone([task[t] EXCEPT !.picks = Append(@, PickOf(t))],
                  EmitDiag(inp.ctx, Arcs[t], x, y, task[t].picks[1].pip, PickOf(t).pip)))
    /\ part_diag' = part_diag + 1
    /\ UNCHANGED <<inp, pc, x, y, x_diff, y_diff, ne, se, sw, nw,
                   part_horiz, part_vert, passes, prev>>

\* collect(): the closures' vectors in arc order
RECURSIVE Collected(_, _)
Collected(tk, i) ==
    IF i > Len(tk) THEN <<>> ELSE tk[i].out \o Collected(tk, i + 1)

\* the arcs the reduction loop pushes onto the list of segment seg
PushedTo(emitted, seg) ==
    LET hit == SelectSeq(emitted, LAMBDA sa : sa[1] = seg)
    IN [i \in 1..Len(hit) |-> hit[i][2]]

AllDone == \A t \in Tasks : task[t].pc = "done"

\* first sizes recorded for a cut point, and how many passes completed there
Recorded(pv, px, py, sz) ==
    IF <<px, py>> \in DOMAIN pv
    THEN [pv EXCEPT ![<<px, py>>].runs = @ + 1]
    ELSE [c \in (DOMAIN pv) \cup {<<px, py>>} |->
             IF c = <<px, py>> THEN [sizes |-> sz, runs |-> 1] ELSE pv[c]]

\* the parallel region has ended: reduce into the four lists and return
\* them to find_partition_point; the index is dropped
PartitionReturn ==
    /\ InPass /\ AllDone
    /\ LET em == Collected(task, 1)
       IN /\ ne' = PushedTo(em, "Northeast")
          /\ se' = PushedTo(em, "Southeast")
          /\ sw' = PushedTo(em, "Southwest")
          /\ nw' = PushedTo(em, "Northwest")
    /\ prev' = Recorded(prev, x, y, <<Len(ne'), Len(se'), Len(sw'), Len(nw')>>)
    /\ pc' = IF pc = "pass_loop" THEN "after_loop" ELSE "after_final"
    /\ pips_n' = EmptyMap /\ pips_e' = EmptyMap
    /\ pips_s' = EmptyMap /\ pips_w' = EmptyMap
    /\ task' = <<>>
    /\ UNCHANGED <<inp, x, y, x_diff, y_diff,
                   part_horiz, part_vert, part_diag, explored_pips, passes>>

---------------------------------------------------------------------------
(* The log of a pass *)

\* the comparisons of dist = q / nets - 0.25 with the band limits, over the
\* integers. A limit is met exactly only when q / nets is 0.45, 0.3, 0.2 or
\* 0.05, where the f64 difference compares as the exact one does, and any
\* other ratio is at least 1 / (20 * nets) away from a limit; for nets = 0
\* dist is NaN and every comparison is false.
DistAbove20(q, n) == n > 0 /\ 20 * q > 9 * n
DistAbove05(q, n) == n > 0 /\ 10 * q > 3 * n
DistBelowMinus05(q, n) == n > 0 /\ 5 * q < n
DistBelowMinus20(q, n) == n > 0 /\ 20 * q < n

\* the closure dist_str: the label and its colour
dist_str(q, n) ==
    IF DistAbove20(q, n) THEN <<"(way too many nets)", "red">>
    ELSE IF DistAbove05(q, n) THEN <<"(too many nets)", "yellow">>
    ELSE IF DistBelowMinus05(q, n) THEN <<"(too few nets)", "yellow">>
    ELSE IF DistBelowMinus20(q, n) THEN <<"(way too few nets)", "red">>
    ELSE <<"(balanced)", "green">>

\* the colour of the count: by dist.abs()
count_colour(q, n) ==
    IF DistAbove20(q, n) \/ DistBelowMinus20(q, n) THEN "red"
    ELSE IF DistAbove05(q, n) \/ DistBelowMinus05(q, n) THEN "yellow"
    ELSE "green"

---------------------------------------------------------------------------
(* The balance search *)

\* the comparison turned around: distortion >= 5.0
GoodEnoughInverted(sz) ==
    LET n == sz[1] + sz[2] + sz[3] + sz[4]
    IN /\ n > 0
       /\ 5 * (Abs(4 * sz[1] - n) + Abs(4 * sz[2] - n)
               + Abs(4 * sz[3] - n) + Abs(4 * sz[4] - n)) >= n

\* distortion <= 5.0, with distortion = 100 * sum |q/nets - 0.25|:
\* 100 * sum |4q - n| / (4n) <= 5  <=>  5 * sum |4q - n| <= n.
\* For n = 0 every term is NaN and the comparison is false.
GoodEnough(sz) ==
    LET n == sz[1] + sz[2] + sz[3] + sz[4]
    IN /\ n > 0
       /\ 5 * (Abs(4 * sz[1] - n) + Abs(4 * sz[2] - n)
               + Abs(4 * sz[3] - n) + Abs(4 * sz[4] - n)) <= n

\* a shift away from the heavier half
ShiftedAway(v, d, a, b) == IF a < b THEN v - d ELSE IF a = b THEN v ELSE v + d

\* x += match north.cmp(&south) { Less => d, Equal => 0, Greater => -d }
Shifted(v, d, a, b) == IF a < b THEN v + d ELSE IF a = b THEN v ELSE v - d

\* a step cut to a quarter
Quartered(d) == d \div 4

\* x_diff >>= 1 (arithmetic shift)
Halved(d) == d \div 2

StartX(a) == TruncDiv(a.x_finish - a.x_start, 2) + a.x_start
StartY(a) == TruncDiv(a.y_finish - a.y_start, 2) + a.y_start
\* a first step of the whole span
StartXDiffWhole(a) == a.x_finish - a.x_start

StartXDiff(a) == TruncDiv(a.x_finish - a.x_start, 4)

\* a first step of half the span
StartYDiffHalf(a) == TruncDiv(a.y_finish - a.y_start, 2)

StartYDiff(a) == TruncDiv(a.y_finish - a.y_start, 4)

\* `while x_diff != 0` holds: partition() is called inside the loop
LoopPass ==
    /\ pc = "loop_test" /\ x_diff # 0
    /\ EnterPass("pass_loop")

\* the loop has ended: the final partition() call
FinalPass ==
    /\ pc = "loop_test" /\ x_diff = 0
    /\ EnterPass("pass_final")

\* Stop early if Good Enough
EarlyExit ==
    /\ pc = "after_loop" /\ GoodEnough(Sizes)
    /\ pc' = "returned"
    /\ UNCHANGED <<inp, x, y, x_diff, y_diff, ne, se, sw, nw,
                   pips_n, pips_e, pips_s, pips_w, task,
                   part_horiz, part_vert, part_diag, explored_pips, passes, prev>>

\* move the cut toward the heavier half and halve the step
Shift ==
    /\ pc = "after_loop" /\ ~GoodEnough(Sizes)
    /\ x' = Shifted(x, x_diff, Len(ne) + Len(nw), Len(se) + Len(sw))
    /\ y' = Shifted(y, y_diff, Len(ne) + Len(se), Len(nw) + Len(sw))
    /\ x_diff' = Halved(x_diff)
    /\ y_diff' = Halved(y_diff)
    /\ pc' = "loop_test"
    /\ UNCHANGED <<inp, ne, se, sw, nw, pips_n, pips_e, pips_s, pips_w, task,
                   part_horiz, part_vert, part_diag, explored_pips, passes, prev>>

\* the result of the final pass is returned unconditionally
FinalReturn ==
    /\ pc = "after_final"
    /\ pc' = "returned"
    /\ UNCHANGED <<inp, x, y, x_diff, y_diff, ne, se, sw, nw,
                   pips_n, pips_e, pips_s, pips_w, task,
                   part_horiz, part_vert, part_diag, explored_pips, passes, prev>>

---------------------------------------------------------------------------
(* Inputs *)

Ctx(gx, gy, pl, dl) == [grid_dim_x |-> gx, grid_dim_y |-> gy, pips |-> pl, delay |-> dl]

Args(nm, c, al, xs, xf, ys, yf) ==
    [scenario |-> nm, ctx |-> c, arcs |-> al, pips |-> [i \in 1..Len(c.pips) |-> i],
     x_start |-> xs, x_finish |-> xf, y_start |-> ys, y_finish |-> yf,
     overflow_checks |-> FALSE]

DelayPairs == (0..MaxSrcDelay) \X (0..MaxDstDelay)
AllDelays(n) == [1..n -> DelayPairs]
UnitDelays(n) == [i \in 1..n |-> <<1, 1>>]

\* an arc that starts and ends in the same cell
Still(i, cx, cy) == MkArc(i, Coord(cx, cy), Coord(cx, cy))

\* bounds sweep: arcs that never cross a cut, every span up to MaxSpan
SweepArcs ==
    { << Still(1, 0, 0) >>, << Still(1, 15, 15) >>, << Still(1, 0, 15) >>,
      << Still(1, 15, 0) >>, << Still(1, 0, 0), Still(2, 15, 15) >> }

SweepInputs ==
    { Args("sweep", Ctx(16, 16, <<>>, <<>>), al, xs, xf, ys, yf) :
        al \in SweepArcs, xs \in {0, 2}, xf \in 0..MaxSpan,
        ys \in {0, 2}, yf \in 0..MaxSpan }

SweepValid == { a \in SweepInputs : a.x_start <= a.x_finish /\ a.y_start <= a.y_finish }

\* scenario S1: one arc (3,3) -> (7,7), 16x16 grid, full bounds
S1Pips ==
    { <<>>,
      << MkPip(Coord(4, 4), Coord(0, 1)) >>,
      << MkPip(Coord(4, 4), Coord(1, 1)) >>,
      << MkPip(Coord(4, 4), Coord(1, 1)), MkPip(Coord(5, 6), Coord(0, 1)) >> }

S1Inputs ==
    { Args("S1", Ctx(16, 16, pl, UnitDelays(Len(pl))),
           << MkArc(1, Coord(3, 3), Coord(7, 7)) >>, 0, 16, 0, 16) : pl \in S1Pips }

\* scenario S3: one arc (2,5) -> (14,5), one pip at (8,5) with direction (-1,0);
\* S3r is the same with the arc reversed
S3Inputs ==
    { Args("S3", Ctx(16, 16, << MkPip(Coord(8, 5), Coord(-1, 0)) >>, UnitDelays(1)),
           << MkArc(1, Coord(2, 5), Coord(14, 5)) >>, 0, 16, 0, 16),
      Args("S3r", Ctx(16, 16, << MkPip(Coord(8, 5), Coord(-1, 0)) >>, UnitDelays(1)),
           << MkArc(1, Coord(14, 5), Coord(2, 5)) >>, 0, 16, 0, 16) }

\* four arcs, one inside each quadrant of (cx, cy)
Around(cx, cy, r) ==
    << Still(1, cx - r, cy - r), Still(2, cx - r, cy + r),
       Still(3, cx + r, cy - r), Still(4, cx + r, cy + r) >>

\* balanced inputs: at the centre, after one shift, and with crossing arcs
BalancedInputs ==
    { Args("balanced", Ctx(16, 16, <<>>, <<>>), Around(8, 8, 4), 0, 16, 0, 16),
      Args("balanced", Ctx(16, 16, <<>>, <<>>), Around(4, 4, 2), 0, 16, 0, 16),
      Args("balanced", Ctx(16, 16, <<>>, <<>>), Around(12, 4, 2), 0, 16, 0, 16),
      Args("balanced",
           Ctx(16, 16, << MkPip(Coord(8, 4), Coord(1, 0)), MkPip(Coord(8, 12), Coord(-1, 0)) >>,
               UnitDelays(2)),
           << MkArc(1, Coord(4, 4), Coord(12, 4)), MkArc(2, Coord(12, 12), Coord(4, 12)) >>,
           0, 16, 0, 16) }

\* three arcs that cross the same cell southwards, two pips in the bucket,
\* every delay table; one pass
ContendedInputs ==
    { Args("contended",
           Ctx(4, 4, << MkPip(Coord(1, 1), Coord(1, 0)), MkPip(Coord(1, 1), Coord(1, 0)) >>, dl),
           << MkArc(1, Coord(0, 0), Coord(2, 0)), MkArc(2, Coord(0, 0), Coord(2, 0)),
              MkArc(3, Coord(0, 0), Coord(2, 0)) >>,
           0, 3, 0, 3) : dl \in AllDelays(2) }

\* two arcs on one bucket, bounds under which the loop pass and the final
\* pass run at the same cut point
RepeatedInputs ==
    { Args("repeated",
           Ctx(5, 4, << MkPip(Coord(2, 1), Coord(1, 0)), MkPip(Coord(2, 1), Coord(1, -1)) >>, dl),
           << MkArc(1, Coord(0, 0), Coord(3, 0)), MkArc(2, Coord(0, 0), Coord(3, 0)) >>,
           0, 4, 0, 3) : dl \in AllDelays(2) }

\* one pass at (2,2) over arcs of every kind; the pip list holds pips in two
\* buckets, an internal pip, a pip outside the bounds and a pip off the cuts
MixedPips ==
    << MkPip(Coord(2, 3), Coord(1, 0)),
       MkPip(Coord(3, 2), Coord(1, 1)),
       MkPip(Coord(2, 2), Coord(1, 1)),
       MkPip(Coord(2, 1), Coord(0, 1)),
       MkPip(Coord(2, 2), Coord(0, 0)),
       MkPip(Coord(2, 5), Coord(1, 0)),
       MkPip(Coord(3, 3), Coord(1, 0)),
       MkPip(Coord(2, 2), Coord(-1, 1)) >>

MixedArcs ==
    << MkArc(1, Coord(3, 3), Coord(4, 4)),
       MkArc(2, Coord(1, 3), Coord(3, 3)),
       MkArc(3, Coord(3, 1), Coord(3, 3)),
       MkArc(4, Coord(1, 1), Coord(3, 3)),
       MkArc(5, Coord(1, 0), Coord(4, 3)) >>

MixedDelays ==
    { UnitDelays(Len(MixedPips)),
      [i \in 1..Len(MixedPips) |-> <<0, 0>>],
      [i \in 1..Len(MixedPips) |-> IF i = 3 THEN <<1, 1>> ELSE <<0, 1>>] }

MixedInputs ==
    { Args("mixed", Ctx(6, 6, MixedPips, dl), MixedArcs, 1, 4, 1, 4) : dl \in MixedDelays }

\* one pass at (2,2) over a single crossing arc, one input per row of the
\* segment tables: sources in each quadrant, both cuts, both values of
\* horiz_is_east; the cells the cuts of the arc fall in hold pips of every
\* direction
Compass(s, k, cells) == [arc |-> MkArc(1, s, k), cells |-> cells]

CompassCases ==
    << Compass(Coord(1, 1), Coord(3, 1), << Coord(2, 1) >>),
       Compass(Coord(1, 3), Coord(3, 3), << Coord(2, 3) >>),
       Compass(Coord(3, 1), Coord(1, 1), << Coord(2, 1) >>),
       Compass(Coord(3, 3), Coord(1, 3), << Coord(2, 3) >>),
       Compass(Coord(1, 1), Coord(1, 3), << Coord(1, 2) >>),
       Compass(Coord(3, 1), Coord(3, 3), << Coord(3, 2) >>),
       Compass(Coord(1, 3), Coord(1, 1), << Coord(1, 2) >>),
       Compass(Coord(3, 3), Coord(3, 1), << Coord(3, 2) >>),
       Compass(Coord(1, 1), Coord(3, 3), << Coord(2, 2) >>),
       Compass(Coord(1, 0), Coord(4, 3), << Coord(2, 1), Coord(3, 2) >>),
       Compass(Coord(3, 3), Coord(1, 1), << Coord(2, 2) >>),
       Compass(Coord(4, 3), Coord(1, 0), << Coord(2, 1), Coord(3, 2) >>),
       Compass(Coord(1, 3), Coord(3, 1), << Coord(2, 2) >>),
       Compass(Coord(0, 3), Coord(3, 0), << Coord(2, 1), Coord(1, 2) >>),
       Compass(Coord(3, 1), Coord(1, 3), << Coord(2, 2) >>),
       Compass(Coord(3, 0), Coord(0, 3), << Coord(2, 1), Coord(1, 2) >>) >>

CompassPips(cells) ==
    [i \in 1..(2 * Len(cells)) |->
        IF i % 2 = 1 THEN MkPip(cells[(i + 1) \div 2], Coord(1, 1))
                     ELSE MkPip(cells[i \div 2], Coord(-1, -1))]

CompassInputs ==
    { Args("compass",
           Ctx(6, 6, CompassPips(CompassCases[i].cells),
               UnitDelays(2 * Len(CompassCases[i].cells))),
           << CompassCases[i].arc >>, 1, 4, 1, 4) : i \in 1..Len(CompassCases) }

\* a grid one cell wide: an arc that crosses the E/W cut, and a pip in the
\* bucket of its direction of travel
NarrowInputs ==
    { Args("narrow", Ctx(1, 4, << MkPip(Coord(0, 1), Coord(0, 1)) >>, UnitDelays(1)),
           << MkArc(1, Coord(0, 0), Coord(0, 2)) >>, 0, 1, 0, 3) }

\* a device 100001 cells wide: one diagonal arc whose line helpers leave the
\* i32 range, in a build with and in a build without overflow checks; pips
\* where the arc crosses the cuts and in the cell the wrapped value falls in
HugeInputs ==
    { [ Args("huge",
             Ctx(100001, 100001,
                 << MkPip(Coord(50000, 1), Coord(1, 1)),
                    MkPip(Coord(50000, 30025), Coord(1, 1)),
                    MkPip(Coord(50000, 30025), Coord(-1, -1)) >>, UnitDelays(3)),
             << MkArc(1, Coord(100000, 30000), Coord(0, 30050)) >>,
             49999, 50002, 0, 60050) EXCEPT !.overflow_checks = b ] : b \in BOOLEAN }

Inputs ==
    SweepValid \cup S1Inputs \cup S3Inputs \cup BalancedInputs
    \cup ContendedInputs \cup RepeatedInputs \cup MixedInputs
    \cup CompassInputs \cup NarrowInputs \cup HugeInputs

---------------------------------------------------------------------------
(* Specification *)

Init ==
    /\ inp \in Inputs
    /\ pc = "loop_test"
    /\ x = StartX(inp) /\ y = StartY(inp)
    /\ x_diff = StartXDiff(inp) /\ y_diff = StartYDiff(inp)
    /\ ne = <<>> /\ se = <<>> /\ sw = <<>> /\ nw = <<>>
    /\ pips_n = EmptyMap /\ pips_e = EmptyMap
    /\ pips_s = EmptyMap /\ pips_w = EmptyMap
    /\ task = <<>>
    /\ part_horiz = 0 /\ part_vert = 0 /\ part_diag = 0 /\ explored_pips = 0
    /\ passes = 0
    /\ prev = EmptyMap

Next ==
    \/ LoopPass
    \/ FinalPass
    \/ \E t \in Tasks : StartSame(t)
    \/ \E t \in Tasks : StartCross(t)
    \/ \E t \in Tasks : StartAbort(t)
    \/ \E t \in Tasks : Load(t)
    \/ \E t \in Tasks : FetchAddSingle(t)
    \/ \E t \in Tasks : FetchAddHoriz(t)
    \/ \E t \in Tasks : FetchAddHorizAbort(t)
    \/ \E t \in Tasks : FetchAddVert(t)
    \/ PartitionReturn
    \/ EarlyExit
    \/ Shift
    \/ FinalReturn

Spec == Init /\ [][Next]_vars

\* every step of the sequential code and of the worker pool is eventually taken
FairSpec == Spec /\ WF_vars(Next)

---------------------------------------------------------------------------
(* The line helpers on their own *)

\* coordinates of small and of large devices
LineValues == {0, 3, 7, 30000, 50000, 100000}

\* one call of a line helper: the helper, the endpoints, the cut coordinate,
\* and whether the build checks for overflow
LineInputs ==
    [scenario : {"line"}, helper : {"split_line_over_x", "split_line_over_y"},
     l0 : {Coord(a, b) : a, b \in LineValues},
     l1 : {Coord(a, b) : a, b \in LineValues},
     at : LineValues, overflow_checks : BOOLEAN]

LineInit ==
    /\ inp \in LineInputs
    /\ pc = "line_call"
    /\ x = 0 /\ y = 0
    /\ x_diff = 0 /\ y_diff = 0
    /\ ne = <<>> /\ se = <<>> /\ sw = <<>> /\ nw = <<>>
    /\ pips_n = EmptyMap /\ pips_e = EmptyMap
    /\ pips_s = EmptyMap /\ pips_w = EmptyMap
    /\ task = <<>>
    /\ part_horiz = 0 /\ part_vert = 0 /\ part_diag = 0 /\ explored_pips = 0
    /\ passes = 0
    /\ prev = EmptyMap

\* the call panics: on an overflow when the build checks for it, on
\* i32::MIN / -1 in every build
LineCallPanics(a) ==
    IF a.helper = "split_line_over_x"
    THEN \/ a.overflow_checks /\ split_line_overflows(a.l0, a.l1, a.at)
         \/ split_line_divides_min(a.l0, a.l1, a.at)
    ELSE \/ a.overflow_checks /\ split_line_y_overflows(a.l0, a.l1, a.at)
         \/ split_line_y_divides_min(a.l0, a.l1, a.at)

\* the helper returns; (x, y) becomes the `middle` of the caller: the cut
\* coordinate and the returned one
LineReturn ==
    /\ pc = "line_call" /\ ~LineCallPanics(inp)
    /\ pc' = "line_done"
    /\ IF inp.helper = "split_line_over_x"
       THEN x' = inp.at /\ y' = split_line_over_x(inp.l0, inp.l1, inp.at)
       ELSE x' = split_line_over_y(inp.l0, inp.l1, inp.at) /\ y' = inp.at
    /\ UNCHANGED <<inp, x_diff, y_diff, ne, se, sw, nw, pips_n, pips_e, pips_s, pips_w,
                   task, part_horiz, part_vert, part_diag, explored_pips, passes, prev>>

LinePanic ==
    /\ pc = "line_call" /\ LineCallPanics(inp)
    /\ pc' = "line_panicked"
    /\ UNCHANGED <<inp, x, y, x_diff, y_diff, ne, se, sw, nw, pips_n, pips_e, pips_s,
                   pips_w, task, part_horiz, part_vert, part_diag, explored_pips,
                   passes, prev>>

LineNext == LineReturn \/ LinePanic

LineSpec == LineInit /\ [][LineNext]_vars

---------------------------------------------------------------------------
(* Properties *)

PassCompleted == pc \in {"after_loop", "after_final", "returned"}
ParallelRegionEnded == InPass /\ AllDone

Cut == Coord(x, y)

\* number of input arcs of the given kind at the current cut point
CrossCount(kind) ==
    Cardinality({i \in 1..Len(Arcs) : ArcKind(Arcs[i], x, y) = kind})

Pieces(kind) == CASE kind = "same" -> 1 [] kind = "diag" -> 3 [] OTHER -> 2

\* C1 (coverage): when a pass has completed at (x, y), the four lists hold
\* together as many sub-arcs as there are input arcs, plus one per arc that
\* changes only its N/S side, plus one per arc that changes only its E/W
\* side, plus two per arc that changes both; and when the parallel region
\* ends every closure has returned exactly 1, 2 or 3 sub-arcs for its arc.
C1_Coverage ==
    /\ PassCompleted =>
         Len(ne) + Len(se) + Len(sw) + Len(nw)
           = Len(Arcs) + CrossCount("ns") + CrossCount("ew") + 2 * CrossCount("diag")
    /\ ParallelRegionEnded =>
         \A t \in Tasks : Len(task[t].out) = Pieces(ArcKind(Arcs[t], x, y))

C1_Witness ==
    /\ pc = "after_final"
    /\ CrossCount("ns") >= 1 /\ CrossCount("ew") >= 1 /\ CrossCount("diag") >= 2
    /\ CrossCount("same") >= 1

\* the sub-arcs of list l all have source and sink in quadrant seg of the cut
ListInside(l, seg) ==
    \A i \in 1..Len(l) : /\ segment_from(l[i].source_loc, Cut) = seg
                         /\ segment_from(l[i].sink_loc, Cut) = seg

\* C2 (containment): in the result find_partition_point returns, every
\* sub-arc of a quadrant list has its source and its sink coordinate in that
\* quadrant relative to the returned (x, y).
C2_Containment ==
    pc = "returned" =>
        /\ ListInside(ne, "Northeast") /\ ListInside(se, "Southeast")
        /\ ListInside(sw, "Southwest") /\ ListInside(nw, "Northwest")

BoundsOrdered == inp.x_start <= inp.x_finish /\ inp.y_start <= inp.y_finish

MaxOf(a, b) == IF a >= b THEN a ELSE b
Span == MaxOf(inp.x_finish - inp.x_start, inp.y_finish - inp.y_start)

\* C3 (termination): for ordered bounds whose larger span is at least 1, the
\* number of partition passes never exceeds ceil(log2(span)) + 1, and the call
\* eventually returns unless a pass aborts.
C3_Termination ==
    /\ []((BoundsOrdered /\ Span >= 1) => passes <= CeilLog2(Span) + 1)
    /\ <>(pc = "returned" \/ pc = "aborted")

C3_Witness ==
    /\ pc = "returned" /\ Span = 16 /\ passes = 4 /\ x_diff = 0

\* C4 (determinism of sizes): a pass that completes at a cut point at which
\* an earlier pass of the same call completed yields the same four sizes.
C4_SameSizes ==
    (pc \in {"after_loop", "after_final"} /\ <<x, y>> \in DOMAIN prev)
        => Sizes = prev[<<x, y>>].sizes

C4_Witness ==
    /\ pc = "after_final" /\ <<x, y>> \in DOMAIN prev
    /\ prev[<<x, y>>].runs = 2
    /\ part_horiz = 2 /\ explored_pips = 4

Dirs == {"n", "e", "s", "w"}

\* the counters of the index, as (direction, cell, position) keys
EntryKeys ==
    {k \in Dirs \X (UNION {DOMAIN IndexOf(d) : d \in Dirs}) \X (1..10) :
        /\ k[2] \in DOMAIN IndexOf(k[1])
        /\ k[3] <= Len(IndexOf(k[1])[k[2]])}

EntryAt(k) == IndexOf(k[1])[k[2]][k[3]]

\* the picks of all closures: (closure, number of the chooser call)
AllPicks == {tk \in Tasks \X {1, 2} : tk[2] <= Len(task[tk[1]].picks)}

\* number of times the chooser has returned entry k in this pass
PickCount(k) ==
    Cardinality({tk \in AllPicks :
        LET pk == task[tk[1]].picks[tk[2]]
        IN pk.dir = k[1] /\ pk.cell = k[2] /\ pk.idx = k[3]})

RECURSIVE SumUses(_)
SumUses(ks) ==
    IF ks = {} THEN 0
    ELSE LET k == CHOOSE k0 \in ks : TRUE
         IN EntryAt(k).uses + SumUses(ks \ {k})

\* C5 (no lost updates): when the parallel region ends, every counter equals
\* the number of times the chooser returned its entry, and the counters add
\* up to (#N/S-only) + (#E/W-only) + 2 * (#diagonal) crossings.
C5_NoLostUpdates ==
    ParallelRegionEnded =>
        /\ \A k \in EntryKeys : EntryAt(k).uses = PickCount(k)
        /\ SumUses(EntryKeys)
             = CrossCount("ns") + CrossCount("ew") + 2 * CrossCount("diag")

C5_Witness ==
    /\ ParallelRegionEnded
    /\ \E k \in EntryKeys : EntryAt(k).uses >= 2
    /\ \E t \in Tasks : task[t].dirty

\* the counters that exist before and after a step of the same pass
KeptKeys == {k \in EntryKeys : k[2] \in DOMAIN (IndexOf(k[1]))'}

\* a step in which closure t evaluates the key of one bucket entry
IsLoad(t) ==
    /\ InPass /\ task[t].pc = "scan"
    /\ t \in DOMAIN task' /\ task'[t].idx = task[t].idx + 1

LoadedKey(t) == <<task[t].bkt.dir, task[t].bkt.cell, task[t].idx>>

\* the entry with key k after the step
EntryAtNext(k) == (IndexOf(k[1]))'[k[2]][k[3]]

\* C6 (monotone diffusion): within a pass no counter ever decreases; a load
\* of a counter returns at least what the previous load of that counter
\* returned, and at least the number of increments of it completed so far.
C6_MonotoneDiffusion ==
    [][ /\ (InPass /\ passes' = passes) =>
             \A k \in KeptKeys :
                 /\ EntryAtNext(k).uses >= EntryAt(k).uses
                 /\ EntryAtNext(k).seen >= EntryAt(k).seen
        /\ \A t \in Tasks : IsLoad(t) =>
             /\ EntryAtNext(LoadedKey(t)).seen >= EntryAt(LoadedKey(t)).seen
             /\ EntryAtNext(LoadedKey(t)).seen >= PickCount(LoadedKey(t)) ]_vars

C6_Witness ==
    /\ InPass
    /\ \E k \in EntryKeys : EntryAt(k).seen >= 2 /\ EntryAt(k).uses >= 3

\* the score of entry i of bucket b for the arc of closure t, now
ScoreNow(t, b, i) ==
    Score(inp.ctx, Bucket(b)[i].pip, Bucket(b)[i].uses,
          Arcs[t].source_wire, Arcs[t].sink_wire)

\* the first entry of bucket b, in bucket order, whose score is minimal
FirstMinimal(t, b) ==
    CHOOSE i \in 1..Len(Bucket(b)) :
        /\ \A j \in 1..Len(Bucket(b)) : ScoreNow(t, b, i) <= ScoreNow(t, b, j)
        /\ \A j \in 1..(i - 1) : ScoreNow(t, b, j) > ScoreNow(t, b, i)

\* a step in which the chooser returns to closure t
IsReturn(t) ==
    /\ InPass /\ task[t].pc = "fetch"
    /\ t \in DOMAIN task' /\ Len(task'[t].picks) = Len(task[t].picks) + 1

\* C7 (chooser): a chooser call during which no other call incremented a
\* counter of its bucket returns the first entry of minimal score, adds
\* exactly 1 to that entry's counter and changes no other counter.
C7_Chooser ==
    [][ \A t \in Tasks : (IsReturn(t) /\ ~task[t].dirty) =>
          LET b == task[t].bkt
              w == FirstMinimal(t, b)
              pk == task'[t].picks[Len(task'[t].picks)]
          IN /\ pk.idx = w /\ pk.dir = b.dir /\ pk.cell = b.cell
             /\ pk.pip = Bucket(b)[w].pip
             /\ \A k \in EntryKeys :
                  EntryAtNext(k).uses =
                      IF k = <<b.dir, b.cell, w>> THEN EntryAt(k).uses + 1
                      ELSE EntryAt(k).uses ]_vars

C7_Witness ==
    /\ InPass
    /\ \E t \in Tasks :
         /\ task[t].pc = "done" /\ ~task[t].dirty /\ Len(task[t].picks) = 1
         /\ task[t].picks[1].idx = 2
         /\ Bucket([dir |-> task[t].picks[1].dir, cell |-> task[t].picks[1].cell])[1].uses = 2

IsS3 == inp.scenario = "S3"
IsS3r == inp.scenario = "S3r"

\* the sub-arcs of list l that start at the source wire of input arc i
IsHeadOf(a, i) == a.source_wire = <<"arc_src", i>> /\ a.sink_wire = <<"pip_src", 1>>
IsTailOf(a, i) == a.source_wire = <<"pip_dst", 1>> /\ a.sink_wire = <<"arc_snk", i>>

\* C8 as stated (scenario S3): the pass over the arc (2,5) -> (14,5) with
\* the cut at x = 8 completes and emits 2 sub-arcs tagged (SW, NW) or
\* (SE, NE).
C8_S3AsStated ==
    (IsS3 /\ x = 8) =>
        /\ pc # "aborted"
        /\ (pc \in {"after_loop", "after_final"} =>
              \/ (Sizes = <<0, 0, 1, 1>> /\ IsHeadOf(sw[1], 1) /\ IsTailOf(nw[1], 1))
              \/ (Sizes = <<1, 1, 0, 0>> /\ IsHeadOf(se[1], 1) /\ IsTailOf(ne[1], 1)))

\* C8 as amended: in scenario S3 the closure of the arc never gets past the
\* lookup of the missing south-bound bucket, so no pass at x = 8 completes
\* and nothing is emitted; with the arc reversed, (14,5) -> (2,5), every pass
\* at x = 8 completes with 2 sub-arcs, tagged (SW, NW) when y <= 5 and
\* (SE, NE) when y > 5.
C8_S3Amended ==
    /\ IsS3 =>
         /\ x = 8 /\ ~PassCompleted
         /\ \A t \in Tasks : task[t].pc = "start" /\ task[t].out = <<>>
    /\ (IsS3r /\ pc \in {"after_loop", "after_final"}) =>
         /\ x = 8
         /\ IF y <= 5
            THEN Sizes = <<0, 0, 1, 1>> /\ IsHeadOf(sw[1], 1) /\ IsTailOf(nw[1], 1)
            ELSE Sizes = <<1, 1, 0, 0>> /\ IsHeadOf(se[1], 1) /\ IsTailOf(ne[1], 1)

C8_Witness == IsS3r /\ pc = "after_final" /\ x = 8 /\ y = 5 /\ Len(sw) = 1

IsS1 == inp.scenario = "S1"
Total == Len(ne) + Len(se) + Len(sw) + Len(nw)

\* C9 as stated (scenario S1): the search over the single arc (3,3) -> (7,7)
\* returns, and returns exactly 1 sub-arc in total.
C9_S1AsStated ==
    IsS1 => /\ pc # "aborted"
            /\ (pc = "returned" => Total = 1)

\* C9 as amended: in scenario S1 the first pass, at the centre (8,8), leaves
\* the arc whole in NE with a distortion above 5.0; the search then moves the
\* cut to (4,4), where the arc crosses both cuts, so that the call never
\* returns a single sub-arc: with no pips it never gets past its second pass,
\* and whenever it returns, it returns (3,6) after 4 passes with the arc
\* split in 2 (one sub-arc in SE, one in SW).
C9_S1Amended ==
    IsS1 =>
        /\ (passes = 1 /\ pc = "after_loop") =>
              (x = 8 /\ y = 8 /\ Sizes = <<1, 0, 0, 0>> /\ ~GoodEnough(Sizes))
        /\ (passes = 2 /\ InPass) =>
              (x = 4 /\ y = 4 /\ ArcKind(Arcs[1], x, y) = "diag")
        /\ (Len(inp.pips) = 0) => (passes <= 2 /\ ~(passes = 2 /\ PassCompleted))
        /\ (pc = "returned") =>
              (x = 3 /\ y = 6 /\ passes = 4 /\ Sizes = <<0, 1, 1, 0>>)

C9_Witness == IsS1 /\ pc = "returned" /\ Total = 2

\* distortion = 100 * sum | |q|/total - 1/4 | <= 5.0, over the integers
DistortionAtMost5(sz) ==
    LET n == sz[1] + sz[2] + sz[3] + sz[4]
        dev(q) == IF 4 * q >= n THEN 4 * q - n ELSE n - 4 * q
    IN n > 0 /\ 100 * (dev(sz[1]) + dev(sz[2]) + dev(sz[3]) + dev(sz[4])) <= 20 * n

----------------------------------------------------------------------------
(* Bucket lookups *)

InInterior(ctx, cell) ==
    /\ 1 <= cell[1] /\ cell[1] <= ctx.grid_dim_x - 1
    /\ 1 <= cell[2] /\ cell[2] <= ctx.grid_dim_y - 1

GridAtLeast2 == inp.ctx.grid_dim_x >= 2 /\ inp.ctx.grid_dim_y >= 2

\* C11 (clamping): on a grid at least 2 wide and high, every cell used for a
\* bucket lookup lies in the interior, 1 <= cell.x <= grid_dim_x - 1 and
\* 1 <= cell.y <= grid_dim_y - 1: the cell a closure is about to look up (the
\* N/S-only, the E/W-only and the first diagonal lookup), the cell of the
\* bucket it scans, the cell of the second diagonal lookup, and the cell of
\* every pip it picked, for every arc at every cut point of the search.
C11_Clamping ==
    (GridAtLeast2 /\ InPass) =>
        \A t \in Tasks :
            /\ (task[t].pc = "start" /\ ArcKind(Arcs[t], x, y) # "same") =>
                  InInterior(inp.ctx, FirstBucket(inp.ctx, Arcs[t], x, y).cell)
            /\ (ArcKind(Arcs[t], x, y) = "diag") =>
                  InInterior(inp.ctx, DiagVertBucket(inp.ctx, Arcs[t], x, y).cell)
            /\ (task[t].bkt # NoBucket) => InInterior(inp.ctx, task[t].bkt.cell)
            /\ \A i \in 1..Len(task[t].picks) :
                  InInterior(inp.ctx, task[t].picks[i].cell)

\* a closure scans a bucket whose cell the clamp moved off the arc's middle
C11_Witness ==
    /\ GridAtLeast2 /\ InPass
    /\ \E t \in Tasks :
          /\ task[t].pc = "scan" /\ ArcKind(Arcs[t], x, y) = "ns"
          /\ task[t].bkt.cell[1] = x
          /\ task[t].bkt.cell[2] #
                TruncDiv(Arcs[t].source_loc.y + Arcs[t].sink_loc.y, 2)

----------------------------------------------------------------------------
(* Shape of the emitted sub-arcs *)

Done(t) == InPass /\ task[t].pc = "done"

\* the pips a finished closure chose, in the order it chose them
PickedPips(t) == [i \in 1..Len(task[t].picks) |-> task[t].picks[i].pip]

\* the sub-arcs of out run from the arc's source wire to its sink wire
\* through the pips of cuts, in that order
Chain(arc, out, cuts) ==
    /\ Len(out) = Len(cuts) + 1
    /\ out[1][2].source_wire = arc.source_wire
    /\ out[Len(out)][2].sink_wire = arc.sink_wire
    /\ \A i \in 1..Len(cuts) :
          /\ out[i][2].sink_wire = pip_src_wire(inp.ctx, cuts[i])
          /\ out[i + 1][2].source_wire = pip_dst_wire(inp.ctx, cuts[i])

\* C12 (split continuity): the sub-arcs a closure emits for one arc form a
\* chain in emission order: the first starts at the arc's source wire, the
\* last ends at the arc's sink wire, and at each of the one or two cuts the
\* preceding sub-arc ends at the cut pip's source wire and the following one
\* starts at that pip's destination wire; for a diagonal arc the two chosen
\* pips are the two cuts, in one order or the other, the second cut being
\* applied to the tail of the first.
C12_SplitContinuity ==
    \A t \in Tasks :
        Done(t) =>
            LET P == PickedPips(t)
            IN CASE ArcKind(Arcs[t], x, y) = "same" -> Chain(Arcs[t], task[t].out, << >>)
                 [] ArcKind(Arcs[t], x, y) = "diag" ->
                      /\ Len(P) = 2
                      /\ \/ Chain(Arcs[t], task[t].out, << P[1], P[2] >>)
                         \/ Chain(Arcs[t], task[t].out, << P[2], P[1] >>)
                 [] OTHER -> Len(P) = 1 /\ Chain(Arcs[t], task[t].out, P)

\* a diagonal arc was cut at two different pips, and another arc at one
C12_Witness ==
    \E t, u \in Tasks :
        /\ Done(t) /\ Done(u)
        /\ Len(task[t].out) = 3 /\ task[t].picks[1].pip # task[t].picks[2].pip
        /\ Len(task[u].out) = 2

----------------------------------------------------------------------------
(* Aborted passes *)

\* the closure of arc t needs a (clamped cell, direction) bucket that the
\* index does not hold
NeedsMissing(t) ==
    /\ ArcKind(Arcs[t], x, y) # "same"
    /\ ~ClampPanics(inp.ctx)
    /\ \/ ~HasBucket(FirstBucket(inp.ctx, Arcs[t], x, y))
       \/ /\ ArcKind(Arcs[t], x, y) = "diag"
          /\ ~HasBucket(DiagVertBucket(inp.ctx, Arcs[t], x, y))

\* C13 (missing bucket): a pass aborts, and find_partition_point returns
\* nothing, if and only if some crossing arc needs a (clamped cell,
\* direction) bucket that the index does not hold: an aborted call has such
\* an arc, a pass whose closures all finished has none, an aborted call never
\* returns, every bucket of the index holds at least one pip, and a closure
\* that scans a bucket always has a candidate.
C13_MissingBucket ==
    /\ (pc = "aborted") => \E t \in Tasks : NeedsMissing(t)
    /\ ParallelRegionEnded => \A t \in Tasks : ~NeedsMissing(t)
    /\ (InPass \/ pc = "aborted") =>
          /\ \A d \in Dirs : \A c \in DOMAIN IndexOf(d) : Len(IndexOf(d)[c]) >= 1
          /\ \A t \in Tasks : (task[t].pc = "scan") => Len(Bucket(task[t].bkt)) >= 1

\* the quadrant diagonally opposite
Opposite(seg) ==
    CASE seg = "Northeast" -> "Southwest"
      [] seg = "Southwest" -> "Northeast"
      [] seg = "Northwest" -> "Southeast"
      [] OTHER -> "Northwest"

\* the tags of the three sub-arcs of a diagonal arc, by (source north,
\* source east, horiz_pip east)
DiagRows ==
    { << <<TRUE, TRUE, TRUE>>, <<"Northeast", "Southeast", "Southwest">> >>,
      << <<TRUE, TRUE, FALSE>>, <<"Northeast", "Northwest", "Southwest">> >>,
      << <<TRUE, FALSE, TRUE>>, <<"Northwest", "Northeast", "Southeast">> >>,
      << <<TRUE, FALSE, FALSE>>, <<"Northwest", "Southwest", "Southeast">> >>,
      << <<FALSE, TRUE, TRUE>>, <<"Southeast", "Northeast", "Northwest">> >>,
      << <<FALSE, TRUE, FALSE>>, <<"Southeast", "Southwest", "Northwest">> >>,
      << <<FALSE, FALSE, TRUE>>, <<"Southwest", "Southeast", "Northeast">> >>,
      << <<FALSE, FALSE, FALSE>>, <<"Southwest", "Northwest", "Northeast">> >> }

Tags(out) == [i \in 1..Len(out) |-> out[i][1]]

\* (source north, source east, horiz_pip east) of a finished diagonal closure
DiagCase(t) ==
    << is_north_of(Arcs[t].source_loc, Cut), is_east_of(Arcs[t].source_loc, Cut),
       is_east_of(pip_location(inp.ctx, task[t].picks[1].pip), Cut) >>

\* C14 (diagonal crossing): an arc whose source and sink differ on both axes
\* yields exactly three sub-arcs; horiz_pip comes from an E/W bucket and
\* vert_pip from a N/S bucket; the arc is cut by horiz_pip first and its tail
\* by vert_pip when horiz_pip's location is on the same E/W side as the
\* source, otherwise by vert_pip first and the tail by horiz_pip; the three
\* tags are the row of the table selected by (source north, source east,
\* horiz_pip east), whose first tag is the source's quadrant and whose third
\* tag is the diagonally opposite quadrant.
C14_DiagonalCrossing ==
    \A t \in Tasks :
        (Done(t) /\ ArcKind(Arcs[t], x, y) = "diag") =>
            LET out == task[t].out
                h == task[t].picks[1].pip
                v == task[t].picks[2].pip
                c == DiagCase(t)
            IN /\ Len(out) = 3 /\ Len(task[t].picks) = 2
               /\ task[t].picks[1].dir = (IF c[2] THEN "w" ELSE "e")
               /\ task[t].picks[2].dir = (IF c[1] THEN "s" ELSE "n")
               /\ IF c[3] = c[2]
                  THEN Chain(Arcs[t], out, << h, v >>)
                  ELSE Chain(Arcs[t], out, << v, h >>)
               /\ << c, Tags(out) >> \in DiagRows
               /\ Tags(out)[1] = segment_from(Arcs[t].source_loc, Cut)
               /\ Tags(out)[3] = Opposite(Tags(out)[1])

\* a diagonal arc from the southeast was cut by vert_pip first
C14_Witness ==
    \E t \in Tasks :
        /\ Done(t) /\ ArcKind(Arcs[t], x, y) = "diag"
        /\ DiagCase(t) = <<FALSE, TRUE, FALSE>>
        /\ task[t].out[1][2].sink_wire = pip_src_wire(inp.ctx, task[t].picks[2].pip)
        /\ task[t].picks[1].pip # task[t].picks[2].pip

\* C15 (single crossing): an arc that crosses exactly one cut yields exactly
\* two sub-arcs, the head and the tail of its split at one pip; the pip comes
\* from the bucket in the direction of travel (pips_s if the source is
\* north, else pips_n, for the N/S cut; pips_w if the source is east, else
\* pips_e, for the E/W cut); the head is tagged with the source's quadrant
\* and the tail with the sibling quadrant across the crossed cut, which is
\* the sink's quadrant; an arc whose endpoints share a quadrant is emitted
\* once, unchanged, tagged with that quadrant.
C15_SingleCrossing ==
    \A t \in Tasks :
        Done(t) =>
            LET arc == Arcs[t]
                out == task[t].out
                src == segment_from(arc.source_loc, Cut)
                snk == segment_from(arc.sink_loc, Cut)
            IN CASE ArcKind(arc, x, y) = "same" ->
                      /\ src = snk /\ task[t].picks = << >>
                      /\ out = << <<src, arc>> >>
                 [] ArcKind(arc, x, y) = "ns" ->
                      /\ Len(task[t].picks) = 1
                      /\ task[t].picks[1].dir =
                            (IF is_north_of(arc.source_loc, Cut) THEN "s" ELSE "n")
                      /\ Chain(arc, out, PickedPips(t))
                      /\ Tags(out) = <<src, snk>>
                      /\ is_north_of(arc.source_loc, Cut) # is_north_of(arc.sink_loc, Cut)
                      /\ is_east_of(arc.source_loc, Cut) = is_east_of(arc.sink_loc, Cut)
                 [] ArcKind(arc, x, y) = "ew" ->
                      /\ Len(task[t].picks) = 1
                      /\ task[t].picks[1].dir =
                            (IF is_east_of(arc.source_loc, Cut) THEN "w" ELSE "e")
                      /\ Chain(arc, out, PickedPips(t))
                      /\ Tags(out) = <<src, snk>>
                      /\ is_north_of(arc.source_loc, Cut) = is_north_of(arc.sink_loc, Cut)
                      /\ is_east_of(arc.source_loc, Cut) # is_east_of(arc.sink_loc, Cut)
                 [] OTHER -> TRUE

\* a west-to-east crossing in the south, cut at a pip of pips_e
C15_Witness ==
    \E t \in Tasks :
        /\ Done(t) /\ ArcKind(Arcs[t], x, y) = "ew"
        /\ task[t].picks[1].dir = "e"
        /\ Tags(task[t].out) = <<"Southwest", "Southeast">>

----------------------------------------------------------------------------
(* Pip index *)

\* the cells that hold a pip of the pip list
PipCells ==
    { << pip_location(inp.ctx, inp.pips[i]).x, pip_location(inp.ctx, inp.pips[i]).y >> :
        i \in 1..Len(inp.pips) }

\* pip lies on a cut line, inside the inclusive bounds
Eligible(pip) ==
    LET L == pip_location(inp.ctx, pip)
    IN /\ (L.x = x \/ L.y = y)
       /\ inp.x_start <= L.x /\ L.x <= inp.x_finish
       /\ inp.y_start <= L.y /\ L.y <= inp.y_finish

Heads(d, pip) ==
    LET D == pip_direction(inp.ctx, pip)
    IN CASE d = "n" -> D.x < 0
         [] d = "s" -> D.x > 0
         [] d = "e" -> D.y < 0
         [] OTHER -> D.y > 0

\* the pips bucket (d, c) is to hold, in pip-list order
Expected(d, c) ==
    SelectSeq(inp.pips,
              LAMBDA pip : /\ << pip_location(inp.ctx, pip).x, pip_location(inp.ctx, pip).y >> = c
                           /\ Eligible(pip) /\ Heads(d, pip))

\* the (direction, cell) buckets that hold pip
BucketsOf(pip) ==
    { dc \in Dirs \X PipCells :
        /\ dc[2] \in DOMAIN IndexOf(dc[1])
        /\ \E i \in 1..Len(IndexOf(dc[1])[dc[2]]) : IndexOf(dc[1])[dc[2]][i].pip = pip }

NonZero(v) == IF v # 0 THEN 1 ELSE 0

\* no closure of the pass has started
IndexFresh == InPass /\ \A t \in Tasks : task[t].pc = "start"

\* C16 (pip index): after the index build of a pass at (x, y), the bucket of
\* direction d at cell c holds, in pip-list order, exactly the pips located
\* at c that lie on a cut line (L.x = x or L.y = y), inside the inclusive
\* bounds, and head in direction d (pips_n: D.x < 0, pips_s: D.x > 0, pips_e:
\* D.y < 0, pips_w: D.y > 0), each with a use count of 0 until a closure
\* runs; a cell without such a pip has no bucket, so no bucket is empty; an
\* eligible pip is in as many buckets as its direction has non-zero
\* components (two, one, or none for direction (0, 0)), any other pip in none.
C16_PipIndex ==
    InPass =>
        /\ \A d \in Dirs :
              /\ DOMAIN IndexOf(d) = { c \in PipCells : Expected(d, c) # << >> }
              /\ \A c \in DOMAIN IndexOf(d) :
                    /\ [i \in 1..Len(IndexOf(d)[c]) |-> IndexOf(d)[c][i].pip] = Expected(d, c)
                    /\ IndexFresh => \A i \in 1..Len(IndexOf(d)[c]) : IndexOf(d)[c][i].uses = 0
        /\ \A i \in 1..Len(inp.pips) :
              Cardinality(BucketsOf(inp.pips[i])) =
                  IF Eligible(inp.pips[i])
                  THEN NonZero(pip_direction(inp.ctx, inp.pips[i]).x)
                       + NonZero(pip_direction(inp.ctx, inp.pips[i]).y)
                  ELSE 0

\* a fresh index over a pip list with a pip in two buckets, an internal
\* pip on the cut, a pip outside the bounds, a pip off both cuts, and a
\* bucket of two pips
C16_Witness ==
    /\ IndexFresh
    /\ \E i, j, k, l \in 1..Len(inp.pips) :
          /\ Cardinality(BucketsOf(inp.pips[i])) = 2
          /\ Eligible(inp.pips[j]) /\ pip_direction(inp.ctx, inp.pips[j]) = Coord(0, 0)
          /\ pip_location(inp.ctx, inp.pips[k]).x = x /\ ~Eligible(inp.pips[k])
          /\ pip_location(inp.ctx, inp.pips[l]).x # x /\ pip_location(inp.ctx, inp.pips[l]).y # y
    /\ \E d \in Dirs : \E c \in DOMAIN IndexOf(d) : Len(IndexOf(d)[c]) = 2

----------------------------------------------------------------------------
(* Search *)

North == Len(ne) + Len(nw)
South == Len(se) + Len(sw)
East == Len(ne) + Len(se)
West == Len(nw) + Len(sw)

\* v moved by d toward the heavier of the halves a (low side) and b
Moved(v, d, a, b) ==
    CASE a < b -> v + d
      [] a > b -> v - d
      [] OTHER -> v

\* C17 (search step): after a pass of the loop that does not exit early, x
\* becomes x + dx if north < south, x - dx if north > south and stays if they
\* are equal (north = |NE| + |NW|, south = |SE| + |SW|), y likewise by dy with
\* east = |NE| + |SE| against west = |NW| + |SW|, and dx and dy are both
\* halved; the pass that follows runs at that (x, y): one closure per arc of
\* the original arc list, none started, over an index built from the whole
\* pip list with the full bounds.
C17_SearchStep ==
    [][ /\ (pc = "after_loop" /\ ~DistortionAtMost5(Sizes)) =>
             /\ x' = Moved(x, x_diff, North, South)
             /\ y' = Moved(y, y_diff, East, West)
             /\ x_diff' >= 0 /\ x_diff - 2 * x_diff' \in {0, 1}
             /\ y_diff' >= 0 /\ y_diff - 2 * y_diff' \in {0, 1}
             /\ pc' = "loop_test"
        /\ (pc = "loop_test") =>
             /\ x' = x /\ y' = y /\ inp' = inp
             /\ x_diff' = x_diff /\ y_diff' = y_diff
             /\ pc' = (IF x_diff # 0 THEN "pass_loop" ELSE "pass_final")
             /\ Len(task') = Len(inp.arcs)
             /\ IndexFresh' /\ C16_PipIndex' ]_vars

\* a third or later pass of the loop starts at a cut point that differs from
\* the centre on both axes and shares exactly one coordinate with the cut
\* point of an earlier pass
C17_Witness ==
    /\ pc = "pass_loop" /\ passes >= 3 /\ IndexFresh
    /\ x # StartX(inp) /\ y # StartY(inp)
    /\ \E c \in DOMAIN prev : (c[1] = x /\ c[2] # y) \/ (c[1] # x /\ c[2] = y)

----------------------------------------------------------------------------
(* Line helpers *)

LineCalled == pc \in {"line_done", "line_panicked"}

\* the value the helper returned
LineResult == IF inp.helper = "split_line_over_x" THEN y ELSE x

\* some product, sum or difference of the call left the 32-bit range
LineWrapped ==
    IF inp.helper = "split_line_over_x"
    THEN split_line_overflows(inp.l0, inp.l1, inp.at)
    ELSE split_line_y_overflows(inp.l0, inp.l1, inp.at)

\* the line through the origin and (c, c): it crosses every cut at the cut's
\* own coordinate
OnMainDiagonal ==
    /\ inp.l0 = Coord(0, 0) /\ inp.l1.x = inp.l1.y /\ inp.l1.x # 0

\* C18 (overflow): split_line_over_x, and split_line_over_y through it,
\* evaluates the quotient with intermediates wide enough that no product,
\* sum or difference wraps around 32 bits, for all endpoint and cut
\* coordinates of a 32-bit grid: every call returns, nothing wraps, and the
\* result is the exact truncated quotient (on the line through (0, 0) and
\* (c, c): the coordinate of the cut).
C18_WideIntermediates ==
    LineCalled =>
        /\ pc = "line_done"
        /\ ~LineWrapped
        /\ OnMainDiagonal => LineResult = inp.at

----------------------------------------------------------------------------
(* Log bands *)

\* a pass has just logged its four quadrant lines
Logged == pc \in {"after_loop", "after_final"}

\* the label of the bands as stated: intensified beyond 0.20 on either side
BandLabel(q, n) ==
    CASE DistAbove20(q, n) -> "(way too many nets)"
      [] DistBelowMinus20(q, n) -> "(way too few nets)"
      [] DistAbove05(q, n) -> "(too many nets)"
      [] DistBelowMinus05(q, n) -> "(too few nets)"
      [] OTHER -> "(balanced)"

Intensified(label) == label \in {"(way too many nets)", "(way too few nets)"}

\* C19 (log bands): for each quadrant with deviation d = |q| / total - 0.25
\* the logged label is "too many" when d > 0.05 and "too few" when d < -0.05,
\* intensified to "way too many" when d > 0.20 and to "way too few" when
\* d < -0.20, and "balanced" otherwise; the count is red when |d| > 0.20,
\* yellow when |d| > 0.05 and green otherwise; so the label is intensified
\* exactly when the count is red.
C19_LogBands ==
    Logged =>
        \A i \in 1..4 :
            /\ dist_str(Sizes[i], Total)[1] = BandLabel(Sizes[i], Total)
            /\ count_colour(Sizes[i], Total) =
                  (IF DistAbove20(Sizes[i], Total) \/ DistBelowMinus20(Sizes[i], Total)
                   THEN "red"
                   ELSE IF DistAbove05(Sizes[i], Total) \/ DistBelowMinus05(Sizes[i], Total)
                   THEN "yellow" ELSE "green")
            /\ Intensified(dist_str(Sizes[i], Total)[1])
                  <=> (count_colour(Sizes[i], Total) = "red")

----------------------------------------------------------------------------
(* Cut point *)

CutInBounds ==
    /\ inp.x_start <= x /\ x <= inp.x_finish
    /\ inp.y_start <= y /\ y <= inp.y_finish

\* C20 (cut point stays in bounds): for bounds with x_start <= x_finish and
\* y_start <= y_finish, at every pass of find_partition_point and in the
\* value it returns, x_start <= x <= x_finish and y_start <= y <= y_finish,
\* whatever the comparisons of the halves were; the steps x_diff and y_diff
\* are never negative and never grow from one pass to the next.
C20_CutInBounds ==
    /\ [](BoundsOrdered => (CutInBounds /\ x_diff >= 0 /\ y_diff >= 0))
    /\ [][BoundsOrdered => (x_diff' <= x_diff /\ y_diff' <= y_diff)]_vars

\* the call returned a cut point that its steps moved, on both axes, to
\* within one cell of a corner of the bounds
C20_Witness ==
    /\ pc = "returned" /\ BoundsOrdered /\ passes >= 3
    /\ x - inp.x_start <= 1 /\ inp.y_finish - y <= 1
    /\ x # StartX(inp) /\ y # StartY(inp)


----------------------------------------------------------------------------
(* Line helpers inside a pass *)

\* the closure of arc t took the diagonal branch at the current cut
DiagClosure(t) == InPass /\ ArcKind(Arcs[t], x, y) = "diag"

\* split_line_over_x has returned to the closure of arc t: the closure has
\* looked up its first bucket
HorizReturned(t) == DiagClosure(t) /\ task[t].pc # "start"

\* split_line_over_y has returned to the closure of arc t: the closure has
\* its horiz_pip and has looked up its second bucket
VertReturned(t) ==
    /\ DiagClosure(t)
    /\ \/ task[t].pc \in {"scan", "fetch"} /\ Len(task[t].picks) = 1
       \/ task[t].pc = "done"

\* v lies between a and b, inclusive, in either order
Between(v, a, b) == (a <= v /\ v <= b) \/ (b <= v /\ v <= a)

\* what the claim says of one returned coordinate: between the endpoints'
\* coordinates on the other axis, and the same for the endpoints swapped
LineSound(v, swapped, a, b) == Between(v, a, b) /\ v = swapped

\* C21 (line helpers inside a pass): a closure calls split_line_over_x and
\* split_line_over_y only on the diagonal branch, where the endpoints differ
\* on both axes, so that neither call divides by zero or takes the midpoint
\* branch; the coordinate each call returns lies between the two endpoints'
\* coordinates on the other axis (inclusive) and is the same when the two
\* endpoints are swapped.
C21_LineInPass ==
    \A t \in Tasks :
        LET s == Arcs[t].source_loc
            k == Arcs[t].sink_loc
        IN /\ DiagClosure(t) => s.x # k.x /\ s.y # k.y
           /\ HorizReturned(t) =>
                 LineSound(split_line_over_x(s, k, x), split_line_over_x(k, s, x),
                           s.y, k.y)
           /\ VertReturned(t) =>
                 LineSound(split_line_over_y(s, k, y), split_line_over_y(k, s, y),
                           s.x, k.x)

\* the same for the calls in which no i32 operation overflows
LineInPassExact ==
    \A t \in Tasks :
        LET s == Arcs[t].source_loc
            k == Arcs[t].sink_loc
        IN /\ DiagClosure(t) => s.x # k.x /\ s.y # k.y
           /\ HorizReturned(t) /\ ~split_line_overflows(s, k, x) =>
                 LineSound(split_line_over_x(s, k, x), split_line_over_x(k, s, x),
                           s.y, k.y)
           /\ VertReturned(t) /\ ~split_line_y_overflows(s, k, y) =>
                 LineSound(split_line_over_y(s, k, y), split_line_over_y(k, s, y),
                           s.x, k.x)

\* both helpers have returned to a closure whose arc is neither axis-parallel
\* nor cut at an endpoint
C21_Witness ==
    \E t \in Tasks :
        /\ VertReturned(t) /\ task[t].pc = "done"
        /\ Arcs[t].source_loc.x # x /\ Arcs[t].sink_loc.x # x
        /\ Arcs[t].source_loc.y # y /\ Arcs[t].sink_loc.y # y

====
